---- MODULE Spec2Model ----
(***************************************************************************)
(* Model of the `sample` subcommand (src/command/sample.rs): run reads its *)
(* arguments, opens the parquet file, builds the projected row iterator,   *)
(* and, when metadata is present, samples row ordinals, filters the row    *)
(* stream by them and hands headers and rows to the table writer.          *)
(***************************************************************************)
EXTENDS Integers, Sequences, FiniteSets, TLC

\* ---- bounds of the model -------------------------------------------------
MaxRows == 3
MaxSample == 3
MaxCols == 2

\* column names a caller may pass with --columns ("zz" is in no schema)
Names == {"a", "b", "zz"}
\* schemas (top-level field names in declaration order) of the files tried
Schemas == {<<"a", "b">>, <<"b", "a", "c">>}

Min(x, y) == IF x < y THEN x ELSE y

\* Option<Vec<String>> as a record: None, or Some(names)
NoneCols == [some |-> FALSE, names |-> <<>>]
SomeCols(l) == [some |-> TRUE, names |-> l]
ColumnArgs == {NoneCols} \cup {SomeCols(l) : l \in UNION {[1..n -> Names] : n \in 1..MaxCols}}

VARIABLES
    argsOk,       \* the three args::*_value reads succeed
    columns,      \* args::string_values(matches, "columns")
    sample,       \* args::usize_value(matches, "sample")
    opens,        \* ParquetFile::of(path) succeeds
    metaPresent,  \* parquet.metadata(0) is Some
    schema,       \* top-level field names of the file
    numRows,      \* parquet.num_rows()
    pc,           \* position of run
    rows,         \* projection of the row iterator built at line 82
    headers,      \* headers handed to TableOutputWriter::new
    indexes,      \* the HashSet returned by sample_indexes
    ordinal,      \* enumerate()'s counter: rows pulled from upstream
    held,         \* the (ordinal, row) pair inside the filter chain
    pulls,        \* history: ordinals pulled from the upstream iterator
    table,        \* rows the table writer received from the filtered iterator
    written,      \* number of table lines already written to out
    out,          \* lines written to out
    writeFailed,  \* history: a write to out was rejected
    steps,        \* history: steps of run executed so far
    result        \* run's return value: "none" while running, "Ok", "Err"

vars == <<argsOk, columns, sample, opens, metaPresent, schema, numRows, pc,
          rows, headers, indexes, ordinal, held, pulls, table, written, out,
          writeFailed, steps, result>>

input == <<argsOk, columns, sample, opens, metaPresent, schema, numRows>>

\* ---- pure functions ------------------------------------------------------

\* Row of the file at scan ordinal o, projected to the field list proj: one
\* cell per projected field, in the order of proj.
Row(o, proj) == [j \in 1..Len(proj) |-> <<o, proj[j]>>]

\* parquet.to_row_fmt_iter(columns): the projection of the iterator, or an
\* error when a named column is not a field of the schema.
to_row_fmt_iter(cols, sch) ==
    IF cols.some
    THEN IF \A j \in 1..Len(cols.names) : \E f \in 1..Len(sch) : sch[f] = cols.names[j]
         THEN [ok |-> TRUE, proj |-> cols.names]
         ELSE [ok |-> FALSE, proj |-> <<>>]
    ELSE [ok |-> TRUE, proj |-> sch]

\* headers always taken from the schema
metadata_headers_schema(sch, cols) == [f \in 1..Len(sch) |-> sch[f]]

\* metadata_headers(metadata, columns)
metadata_headers(sch, cols) ==
    IF cols.some THEN cols.names ELSE [f \in 1..Len(sch) |-> sch[f]]

\* The draws of the rng during one shuffle of n elements: for each i in
\* 1..n-1 a value of gen_range(0, i + 1).
Rngs(n) == {c \in [1..(n - 1) -> 0..(n - 1)] : \A i \in 1..(n - 1) : c[i] <= i}

\* swap that copies one way only
Swap_half(v, i, j) == [v EXCEPT ![i + 1] = v[j + 1]]

\* slice.swap(i, j), 0-based positions
Swap(v, i, j) == [v EXCEPT ![i + 1] = v[j + 1], ![j + 1] = v[i + 1]]

\* vec.shuffle(&mut rng): for i in (1..len).rev() { swap(i, gen_range(0, i+1)) }
RECURSIVE ShuffleFrom(_, _, _)
ShuffleFrom(v, c, i) ==
    IF i < 1 THEN v ELSE ShuffleFrom(Swap(v, i, c[i]), c, i - 1)

\* the shuffle left out
Shuffle_none(v, c) == v

Shuffle(v, c) == ShuffleFrom(v, c, Len(v) - 1)

\* take one element too many
Take_more(v, k) == SubSeq(v, 1, Min(k + 1, Len(v)))

\* iter().take(k): the first k elements, all of them when k exceeds the length
Take(v, k) == SubSeq(v, 1, Min(k, Len(v)))

\* sample_indexes(sample, size) under the rng draws c
sample_indexes(k, n, c) ==
    LET vec == [i \in 1..n |-> i - 1]
        taken == Take(Shuffle(vec, c), k)
    IN {taken[i] : i \in 1..Len(taken)}

\* the line the table writer emits for a list of cells
HeaderLine(h) == [kind |-> "header", cells |-> h]
RowLine(r) == [kind |-> "row", cells |-> r]

\* ---- the state machine ---------------------------------------------------

Init ==
    /\ argsOk \in BOOLEAN
    /\ columns \in ColumnArgs
    /\ sample \in 0..MaxSample
    /\ opens \in BOOLEAN
    /\ metaPresent \in BOOLEAN
    /\ schema \in Schemas
    /\ numRows \in 0..MaxRows
    /\ pc = "args"
    /\ rows = <<>>
    /\ headers = <<>>
    /\ indexes = {}
    /\ ordinal = 0
    /\ held = <<>>
    /\ pulls = <<>>
    /\ table = <<>>
    /\ written = 0
    /\ out = <<>>
    /\ writeFailed = FALSE
    /\ steps = <<>>
    /\ result = "none"

\* lines 77-79: the three argument reads, each ending in `?`
ReadArgs ==
    /\ pc = "args"
    /\ steps' = Append(steps, "args")
    /\ IF argsOk
       THEN pc' = "open" /\ result' = result
       ELSE pc' = "done" /\ result' = "Err"
    /\ UNCHANGED <<input, rows, headers, indexes, ordinal, held, pulls, table,
                   written, out, writeFailed>>

\* open error dropped instead of returned
OpenFile_swallow ==
    /\ pc = "open"
    /\ steps' = Append(steps, "open")
    /\ pc' = "iter"
    /\ UNCHANGED <<input, rows, headers, indexes, ordinal, held, pulls, table,
                   written, out, writeFailed, result>>

\* line 80: ParquetFile::of(path)?
OpenFile ==
    /\ pc = "open"
    /\ steps' = Append(steps, "open")
    /\ IF opens
       THEN pc' = "iter" /\ result' = result
       ELSE pc' = "done" /\ result' = "Err"
    /\ UNCHANGED <<input, rows, headers, indexes, ordinal, held, pulls, table,
                   written, out, writeFailed>>

\* row iterator built without the caller's columns
RowFmtIter_nocols ==
    /\ pc = "iter"
    /\ steps' = Append(steps, "iter")
    /\ LET it == to_row_fmt_iter(NoneCols, schema)
       IN IF it.ok
          THEN pc' = "match" /\ rows' = it.proj /\ result' = result
          ELSE pc' = "done" /\ rows' = rows /\ result' = "Err"
    /\ UNCHANGED <<input, headers, indexes, ordinal, held, pulls, table,
                   written, out, writeFailed>>

\* projection error found only after the header line went out
RowFmtIter_late ==
    /\ pc = "iter"
    /\ steps' = Append(steps, "iter")
    /\ LET it == to_row_fmt_iter(columns, schema)
       IN IF it.ok
          THEN pc' = "match" /\ rows' = it.proj /\ result' = result /\ out' = out
          ELSE /\ pc' = "done" /\ rows' = rows /\ result' = "Err"
               /\ out' = Append(out, HeaderLine(metadata_headers(schema, columns)))
    /\ UNCHANGED <<input, headers, indexes, ordinal, held, pulls, table,
                   written, writeFailed>>

\* lines 81-82: metadata(0) is read, then to_row_fmt_iter(columns.clone())?
RowFmtIter ==
    /\ pc = "iter"
    /\ steps' = Append(steps, "iter")
    /\ LET it == to_row_fmt_iter(columns, schema)
       IN IF it.ok
          THEN pc' = "match" /\ rows' = it.proj /\ result' = result
          ELSE pc' = "done" /\ rows' = rows /\ result' = "Err"
    /\ UNCHANGED <<input, headers, indexes, ordinal, held, pulls, table,
                   written, out, writeFailed>>

\* line 98: None => Ok(())
MatchNone ==
    /\ pc = "match"
    /\ ~metaPresent
    /\ steps' = Append(steps, "none")
    /\ pc' = "done"
    /\ result' = "Ok"
    /\ UNCHANGED <<input, rows, headers, indexes, ordinal, held, pulls, table,
                   written, out, writeFailed>>

\* lines 85-94: Some(meta): size, headers, indexes, the lazy filter chain and
\* the table writer are built; nothing is pulled or written yet
MatchSome ==
    /\ pc = "match"
    /\ metaPresent
    /\ steps' = Append(steps, "some")
    /\ headers' = metadata_headers(schema, columns)
    /\ \E c \in Rngs(numRows) : indexes' = sample_indexes(sample, numRows, c)
    /\ pc' = "drain"
    /\ UNCHANGED <<input, rows, ordinal, held, pulls, table, written, out,
                   writeFailed, result>>

\* line 90: the writer asks for the next row; enumerate() pulls one row from
\* the upstream iterator and pairs it with its ordinal
Pull ==
    /\ pc = "drain"
    /\ held = <<>>
    /\ ordinal < numRows
    /\ held' = <<[ord |-> ordinal, row |-> Row(ordinal, rows)]>>
    /\ pulls' = Append(pulls, ordinal)
    /\ ordinal' = ordinal + 1
    /\ UNCHANGED <<input, pc, rows, headers, indexes, table, written, out,
                   writeFailed, steps, result>>

\* kept rows collected in reverse
Filter_reversed ==
    /\ pc = "drain"
    /\ held # <<>>
    /\ IF held[1].ord \in indexes
       THEN table' = <<held[1].row>> \o table
       ELSE table' = table
    /\ held' = <<>>
    /\ UNCHANGED <<input, pc, rows, headers, indexes, ordinal, pulls, written,
                   out, writeFailed, steps, result>>

\* lines 91-92: filter(|t| indexes.contains(&t.0)).map(|r| r.1)
Filter ==
    /\ pc = "drain"
    /\ held # <<>>
    /\ IF held[1].ord \in indexes
       THEN table' = Append(table, held[1].row)
       ELSE table' = table
    /\ held' = <<>>
    /\ UNCHANGED <<input, pc, rows, headers, indexes, ordinal, pulls, written,
                   out, writeFailed, steps, result>>

\* filter that may stop once every sampled ordinal has been yielded
EndOfRows_early ==
    /\ pc = "drain"
    /\ held = <<>>
    /\ (ordinal >= numRows \/ Len(table) = Cardinality(indexes))
    /\ pc' = "write"
    /\ steps' = Append(steps, "write")
    /\ UNCHANGED <<input, rows, headers, indexes, ordinal, held, pulls, table,
                   written, out, writeFailed, result>>

\* the upstream iterator returns None: the filtered sequence ends and the
\* writer starts writing
EndOfRows ==
    /\ pc = "drain"
    /\ held = <<>>
    /\ ordinal >= numRows
    /\ pc' = "write"
    /\ steps' = Append(steps, "write")
    /\ UNCHANGED <<input, rows, headers, indexes, ordinal, held, pulls, table,
                   written, out, writeFailed, result>>

\* line 96: writer.write(out): the header line, then one line per row; the
\* sink may reject any line, which ends run with that error
WriteLine ==
    /\ pc = "write"
    /\ written <= Len(table)
    /\ \E ok \in BOOLEAN :
         IF ok
         THEN /\ out' = Append(out, IF written = 0 THEN HeaderLine(headers)
                                                    ELSE RowLine(table[written]))
              /\ written' = written + 1
              /\ UNCHANGED <<pc, writeFailed, result>>
         ELSE /\ writeFailed' = TRUE
              /\ pc' = "done"
              /\ result' = "Err"
              /\ UNCHANGED <<out, written>>
    /\ UNCHANGED <<input, rows, headers, indexes, ordinal, held, pulls, table,
                   steps>>

\* line 96: writer.write(out) returns Ok(()), which is run's result
WriteDone ==
    /\ pc = "write"
    /\ written = Len(table) + 1
    /\ pc' = "done"
    /\ result' = "Ok"
    /\ UNCHANGED <<input, rows, headers, indexes, ordinal, held, pulls, table,
                   written, out, writeFailed, steps>>

Next ==
    \/ ReadArgs
    \/ OpenFile
    \/ RowFmtIter
    \/ MatchNone
    \/ MatchSome
    \/ Pull
    \/ Filter
    \/ EndOfRows
    \/ WriteLine
    \/ WriteDone

Spec == Init /\ [][Next]_vars

\* run is one blocking call on the caller's thread: it keeps stepping
FairSpec == Spec /\ WF_vars(Next)

TypeOK ==
    /\ pc \in {"args", "open", "iter", "match", "drain", "write", "done"}
    /\ result \in {"none", "Ok", "Err"}
    /\ ordinal \in 0..numRows
    /\ Len(held) <= 1

\* ---- properties ----------------------------------------------------------

\* run took the Some(meta) branch: sample_indexes has been called
Sampled == Len(steps) >= 4 /\ steps[4] = "some"

Ordinals(n) == 0..(n - 1)

\* the elements of a set of ordinals in ascending order
RECURSIVE Asc(_)
Asc(S) ==
    IF S = {} THEN <<>>
    ELSE LET m == CHOOSE x \in S : \A y \in S : x <= y
         IN <<m>> \o Asc(S \ {m})

\* a requested column is not a field of the schema
UnknownColumn ==
    columns.some /\ \E j \in 1..Len(columns.names) :
                       \A f \in 1..Len(schema) : schema[f] # columns.names[j]

\* the fields the row iterator is asked for
Projection == IF columns.some THEN columns.names ELSE schema

\* C1: sample_indexes(k, n) is a set of min(k, n) distinct indices, all in
\* [0, n); it is all of {0..n-1} when k >= n and empty when k = 0 or n = 0.
C1_SampleIndexesShape ==
    Sampled =>
        /\ indexes \subseteq Ordinals(numRows)
        /\ Cardinality(indexes) = Min(sample, numRows)
        /\ (sample >= numRows => indexes = Ordinals(numRows))
        /\ (sample = 0 \/ numRows = 0 => indexes = {})

C1_Witness ==
    /\ Sampled
    /\ numRows >= 2
    /\ sample > numRows
    /\ indexes = Ordinals(numRows)

\* C2: when the file opens, metadata is present, the projection resolves and
\* no write fails, run returns Ok and out holds the header line followed by
\* exactly min(sample, num_rows) row lines (the header alone when sample = 0
\* or the file has no rows).
C2_PipelineCardinality ==
    (pc = "done" /\ argsOk /\ opens /\ metaPresent /\ ~UnknownColumn /\ ~writeFailed) =>
        /\ result = "Ok"
        /\ Len(out) = 1 + Min(sample, numRows)
        /\ out[1].kind = "header"
        /\ \A i \in 2..Len(out) : out[i].kind = "row"
        /\ (sample = 0 \/ numRows = 0 => Len(out) = 1)

C2_Witness ==
    /\ pc = "done"
    /\ result = "Ok"
    /\ metaPresent
    /\ sample = 1
    /\ numRows = 2
    /\ Len(out) = 2

\* C3: the rows handed to the table writer are exactly the upstream rows
\* whose ordinal is in the index set, each once, in ascending ordinal order;
\* with sample >= num_rows that is every row in scan order.
C3_OrderPreserved ==
    (Sampled /\ pc \in {"write", "done"}) =>
        LET asc == Asc(indexes)
        IN /\ table = [i \in 1..Cardinality(indexes) |-> Row(asc[i], Projection)]
           /\ \A i, j \in 1..Len(table) : i < j => table[i][1][1] < table[j][1][1]
           /\ (sample >= numRows =>
                 table = [i \in 1..numRows |-> Row(i - 1, Projection)])
           /\ \A i \in 2..Len(out) : out[i].cells = table[i - 1]

C3_Witness ==
    /\ pc = "done"
    /\ result = "Ok"
    /\ indexes = {0, 2}
    /\ Len(out) = 3
    /\ out[2].cells[1][1] = 0
    /\ out[3].cells[1][1] = 2

\* C4: the header list given to the table writer is the caller's columns
\* list verbatim when columns is supplied, and the schema's field names in
\* declaration order otherwise.
C4_HeaderFidelity ==
    Sampled =>
        /\ (columns.some => headers = columns.names)
        /\ (~columns.some => headers = schema)
        /\ (Len(out) >= 1 => out[1].cells = headers)

C4_Witness ==
    /\ Len(out) >= 1
    /\ columns.some
    /\ schema = <<"a", "b">>
    /\ out[1].cells = <<"b", "a">>

\* C5: whenever the file opens and its metadata is absent, run returns Ok
\* and nothing is written, whatever sample and columns are.
C5_AbsentMetadataOk ==
    (pc = "done" /\ argsOk /\ opens /\ ~metaPresent) =>
        (result = "Ok" /\ out = <<>>)

\* C6: a requested column absent from the schema makes run return an error
\* with nothing written: the iterator's error is propagated before the table
\* writer is invoked.
C6_UnknownColumnError ==
    (pc = "done" /\ argsOk /\ opens /\ UnknownColumn) =>
        /\ result = "Err"
        /\ out = <<>>
        /\ written = 0
        /\ pulls = <<>>
        /\ steps = <<"args", "open", "iter">>

C6_Witness ==
    /\ pc = "done"
    /\ argsOk
    /\ opens
    /\ metaPresent
    /\ columns.some
    /\ columns.names = <<"a", "zz">>
    /\ result = "Err"

\* C7: for k < n the result is one of the k-subsets of [0, n), every such
\* subset is the result of some rng draws, and every subset is the result of
\* the same number of (equally likely) rng draws.
C7_UniformSubsets ==
    (Sampled /\ sample < numRows) =>
        LET subsets == {S \in SUBSET Ordinals(numRows) : Cardinality(S) = sample}
            draws(S) == {c \in Rngs(numRows) : sample_indexes(sample, numRows, c) = S}
        IN /\ indexes \in subsets
           /\ \A S \in subsets : draws(S) # {}
           /\ \A S, T \in subsets : Cardinality(draws(S)) = Cardinality(draws(T))

C7_Witness ==
    /\ Sampled
    /\ sample = 2
    /\ numRows = 3
    /\ indexes = {0, 2}

\* C8: in every run that reaches the table writer the number of headers
\* equals the number of cells of every emitted row, with columns supplied
\* (that many cells) and without (one cell per schema field).
C8_HeaderArity ==
    Sampled =>
        /\ \A i \in 1..Len(table) : Len(table[i]) = Len(headers)
        /\ \A i \in 2..Len(out) : Len(out[i].cells) = Len(out[1].cells)
        /\ \A i \in 1..Len(table) :
              Len(table[i]) = IF columns.some THEN Len(columns.names) ELSE Len(schema)

C8_Witness ==
    /\ columns.some
    /\ Len(columns.names) = 1
    /\ Len(out) >= 2
    /\ Len(out[2].cells) = 1
    /\ Len(out[1].cells) = 1

\* C9: the filter pulls every upstream row exactly once, in order, one row
\* at a time, ends exactly when the upstream iterator ends (never earlier,
\* even when every sampled ordinal has been yielded or the set is empty),
\* and run always comes to an end.
C9_FilterDrainsUpstream ==
    /\ [](Len(held) <= 1)
    /\ []((Sampled /\ pc = "drain") =>
            pulls = [i \in 1..ordinal |-> i - 1])
    /\ []((Sampled /\ pc \in {"write", "done"}) =>
            (held = <<>> /\ pulls = [i \in 1..numRows |-> i - 1]))
    /\ <>(pc = "done")

C9_Witness ==
    /\ pc = "write"
    /\ numRows >= 2
    /\ (numRows - 1) \notin indexes
    /\ Len(pulls) = numRows
    /\ pulls[numRows] = numRows - 1

\* C10: run returns Ok only if every step succeeded; a failing step is
\* returned as an error, is not retried, and no later step runs after it; a
\* write failure of the table writer is run's result.
C10_ErrorsSurface ==
    /\ (result = "Ok" =>
          /\ argsOk /\ opens /\ ~UnknownColumn
          /\ (~metaPresent \/ (~writeFailed /\ Len(out) = Len(table) + 1)))
    /\ (pc = "done" => result \in {"Ok", "Err"})
    /\ (pc = "done" /\ ~argsOk => result = "Err" /\ steps = <<"args">>)
    /\ (pc = "done" /\ argsOk /\ ~opens =>
          result = "Err" /\ steps = <<"args", "open">>)
    /\ (pc = "done" /\ argsOk /\ opens /\ UnknownColumn =>
          result = "Err" /\ steps = <<"args", "open", "iter">>)
    /\ (writeFailed => pc = "done" /\ result = "Err")
    /\ \A i, j \in 1..Len(steps) : i # j => steps[i] # steps[j]

C10_Witness ==
    /\ writeFailed
    /\ result = "Err"
    /\ Len(out) = 2
    /\ Len(table) = 2
====
